---- MODULE Spec2Model ----
(***************************************************************************)
(* rori: pruning of region files by the InhabitedTime of their chunks.     *)
(*                                                                         *)
(* Part 1 models src/src/parser.rs, the partial NBT scanner, as operators  *)
(* over byte sequences (a byte is an integer 0..255, a cursor is the       *)
(* number of bytes consumed).  Part 2 models src/src/lib.rs, the region    *)
(* and directory pipeline, as a state machine over a file system.          *)
(*                                                                         *)
(* 64-bit machine words (i64 values, usize lengths) are kept at their      *)
(* width as sequences of 8 bytes, most significant first: the model's      *)
(* integers are narrower than the program's.                               *)
(***************************************************************************)
EXTENDS Integers, Sequences, FiniteSets, TLC

VARIABLES
    overflow_checks,  \* build profile: TRUE = arithmetic overflow panics
    doc,              \* scanner input: the description the buffer is built from
    buf,              \* scanner input: chunk_data
    res,              \* scanner output: Pending, or the returned Result
    dry_run,          \* process_directory argument
    delete_regions,   \* process_directory argument
    threshold,        \* process_directory argument inhabited_time
    dir,              \* the directory: path -> file
    phase,            \* of process_directory: "idle", "running", "done",
                      \* "panicked"
    runs,             \* calls of process_directory so far
    work,             \* region path -> the state of its process_region call
    history,          \* what each finished call of process_directory reported
    orig,             \* the directory as it was when the current call began
    merge_before,     \* merge input: total_stats as the results before
                      \* merge_parts have left it
    merge_parts,      \* merge input: a Vec of RegionStats
    merge_total,      \* merge output: the running total_stats
    merge_done        \* the indices of merge_parts merged into merge_total

scanVars == <<overflow_checks, doc, buf, res>>

pipeVars == <<dry_run, delete_regions, threshold, dir, phase, runs, work,
              history, orig>>

mergeVars == <<merge_before, merge_parts, merge_total, merge_done>>

vars == <<overflow_checks, doc, buf, res, dry_run, delete_regions, threshold, dir,
          phase, runs, work, history, orig, merge_before, merge_parts, merge_total,
          merge_done>>

----------------------------------------------------------------------------
(* Machine words.                                                          *)

Max(a, b) == IF a >= b THEN a ELSE b

Min(a, b) == IF a <= b THEN a ELSE b

Zero64 == <<0, 0, 0, 0, 0, 0, 0, 0>>

\* Fill(n, x): n copies of x
Fill(n, x) == [i \in 1..n |-> x]

\* `as i64` / `as usize` of a signed big-endian integer of Len(bs) bytes
SignExtend(bs) == Fill(8 - Len(bs), IF bs[1] >= 128 THEN 255 ELSE 0) \o bs

\* `as usize` of an unsigned big-endian integer of Len(bs) bytes
ZeroExtend(bs) == Fill(8 - Len(bs), 0) \o bs

\* the word as a number, when it is below 2^24
Low24(w) == w[6] * 65536 + w[7] * 256 + w[8]

\* w <= n, for a number n below 2^24
WordLe(w, n) == (\A i \in 1..5 : w[i] = 0) /\ Low24(w) <= n

\* w >= n, for a number n below 2^24
WordGe(w, n) == (\E i \in 1..5 : w[i] # 0) \/ Low24(w) >= n

\* the carry into byte i of the product w * k
RECURSIVE CarryIn(_, _, _)
CarryIn(w, k, i) ==
    IF i = 8 THEN 0 ELSE (w[i + 1] * k + CarryIn(w, k, i + 1)) \div 256

\* usize multiplication: the wrapped product and whether it overflowed
WordMul(w, k) ==
    [w   |-> [i \in 1..8 |-> (w[i] * k + CarryIn(w, k, i)) % 256],
     ovf |-> (w[1] * k + CarryIn(w, k, 1)) \div 256 # 0]

\* signed comparison a > b of two i64
I64Gt(a, b) ==
    LET neg(x) == x[1] >= 128
        RECURSIVE gt(_)
        gt(i) == IF i > 8 THEN FALSE
                 ELSE IF a[i] # b[i] THEN a[i] > b[i]
                 ELSE gt(i + 1)
    IN  IF neg(a) # neg(b) THEN neg(b) ELSE gt(1)

----------------------------------------------------------------------------
(* parser.rs: tag kinds.                                                   *)

TAG_END == 0
TAG_BYTE == 1
TAG_SHORT == 2
TAG_INT == 3
TAG_LONG == 4
TAG_FLOAT == 5
TAG_DOUBLE == 6
TAG_BYTE_ARRAY == 7
TAG_STRING == 8
TAG_LIST == 9
TAG_COMPOUND == 10
TAG_INT_ARRAY == 11
TAG_LONG_ARRAY == 12

\* b"InhabitedTime"
INHABITED_TIME == <<73, 110, 104, 97, 98, 105, 116, 101, 100, 84, 105, 109, 101>>

----------------------------------------------------------------------------
(* parser.rs: results.  A result is the Result the function returns        *)
(* together with the reader's state after it:                              *)
(*   st   "Ok", "IoError", "InvalidFormat", or "Panic" (the call unwound)  *)
(*   some, val   the Option<i64> of an Ok                                  *)
(*   pos  the cursor position                                              *)
(*   ovf  whether a usize multiplication overflowed on the way             *)
(*   dep  the largest number of simultaneously active calls of             *)
(*        search_compound_recursive, skip_tag_value and skip_compound      *)
(*        below (and including) this call                                  *)

Ret(st, p) ==
    [st |-> st, some |-> FALSE, val |-> Zero64, pos |-> p, ovf |-> FALSE, dep |-> 0,
     stall |-> FALSE]

RetSome(p, v) ==
    [st |-> "Ok", some |-> TRUE, val |-> v, pos |-> p, ovf |-> FALSE, dep |-> 0,
     stall |-> FALSE]

\* the callee's result r as seen after a prefix of work with flags (ovf, dep)
After(ovf, dep, r) == [r EXCEPT !.ovf = @ \/ ovf, !.dep = Max(@, dep)]

\* the rest of a loop after an iteration that began with the cursor at p and
\* ended in v: stall = some iteration has gone round without moving the cursor
Then(p, v, rest) ==
    [After(v.ovf, v.dep, rest) EXCEPT !.stall = @ \/ v.stall \/ v.pos <= p]

\* r as the result of a call that holds one more frame
Frame(r) == [r EXCEPT !.dep = @ + 1]

\* Cursor::read_exact of n bytes: Ok and the bytes, or UnexpectedEof with
\* the cursor left at the end of the buffer (older standard libraries leave
\* it where it was: within the buffer either way)
read_exact(b, p, n) ==
    IF p + n <= Len(b)
    THEN [ok |-> TRUE, pos |-> p + n, bytes |-> SubSeq(b, p + 1, p + n)]
    ELSE [ok |-> FALSE, pos |-> Len(b), bytes |-> <<>>]

\* skip_bytes that reports a short read as a format error
skip_bytes_format_error(b, p, count) ==
    IF WordLe(count, 64) \/ WordLe(count, 1024)
    THEN LET r == read_exact(b, p, Low24(count))
         IN  IF r.ok THEN Ret("Ok", r.pos) ELSE Ret("InvalidFormat", r.pos)
    ELSE IF WordGe(count, Len(b) - p)
         THEN Ret("InvalidFormat", Len(b))
         ELSE Ret("Ok", p + Low24(count))

\* skip_bytes: read_exact into a stack buffer up to 1024 bytes, and beyond that
\* io::copy of reader.take(count), which ends at the end of the input
\* without an error
skip_bytes(b, p, count) ==
    IF WordLe(count, 64) \/ WordLe(count, 1024)
    THEN LET r == read_exact(b, p, Low24(count))
         IN  IF r.ok THEN Ret("Ok", r.pos) ELSE Ret("IoError", r.pos)
    ELSE IF WordGe(count, Len(b) - p)
         THEN Ret("Ok", Len(b))
         ELSE Ret("Ok", p + Low24(count))

\* skip_string: a u16 length, then that many bytes
skip_string(b, p) ==
    LET l == read_exact(b, p, 2)
    IN  IF ~l.ok THEN Ret("IoError", l.pos)
        ELSE skip_bytes(b, l.pos, ZeroExtend(l.bytes))

\* compare_inhabited_time: two u64 comparisons, over bytes 0..7 and over
\* bytes 8..12 padded with three zero bytes
compare_inhabited_time(buffer) ==
    LET chunk1_buffer == SubSeq(buffer, 1, 8)
        chunk1_target == SubSeq(INHABITED_TIME, 1, 8)
        chunk2_buffer == SubSeq(buffer, 9, 13) \o <<0, 0, 0>>
        chunk2_target == SubSeq(INHABITED_TIME, 9, 13) \o <<0, 0, 0>>
    IN  IF chunk1_buffer # chunk1_target THEN FALSE
        ELSE chunk2_buffer = chunk2_target

\* is_inhabited_time_string: [st, pos, is]
is_inhabited_time_string(b, p) ==
    LET l == read_exact(b, p, 2)
    IN  IF ~l.ok THEN [st |-> "IoError", pos |-> l.pos, is |-> FALSE]
        ELSE IF ZeroExtend(l.bytes) # ZeroExtend(<<0, Len(INHABITED_TIME)>>)
        THEN LET s == skip_bytes(b, l.pos, ZeroExtend(l.bytes))
             IN  [st |-> s.st, pos |-> s.pos, is |-> FALSE]
        ELSE LET n == read_exact(b, l.pos, 13)
             IN  IF ~n.ok THEN [st |-> "IoError", pos |-> n.pos, is |-> FALSE]
                 ELSE [st |-> "Ok", pos |-> n.pos,
                       is |-> compare_inhabited_time(n.bytes)]

\* a read of n bytes whose value is dropped (read_u8, read_u16, ...)
skip_fixed(b, p, n) ==
    LET r == read_exact(b, p, n)
    IN  IF r.ok THEN Ret("Ok", r.pos) ELSE Ret("IoError", r.pos)

\* `length * width` followed by skip_bytes: the product wraps, or panics
\* when the build checks overflow
skip_scaled(b, p, length, width) ==
    LET m == WordMul(length, width)
    IN  IF m.ovf /\ overflow_checks
        THEN After(TRUE, 0, Ret("Panic", p))
        ELSE After(m.ovf, 0, skip_bytes(b, p, m.w))

\* `read_i32()? as usize` followed by skip_bytes(length * width)
skip_array(b, p, width) ==
    LET l == read_exact(b, p, 4)
    IN  IF ~l.ok THEN Ret("IoError", l.pos)
        ELSE IF width = 1 THEN skip_bytes(b, l.pos, SignExtend(l.bytes))
        ELSE skip_scaled(b, l.pos, SignExtend(l.bytes), width)

\* the `_` arm of skip_tag_value taken for a value of no width
unknown_tag_ignored(p, tag_type) == Ret("Ok", p)

\* the `_` arm of skip_tag_value: kind `end` and every kind above 12
unknown_tag(p, tag_type) == Ret("InvalidFormat", p)

RECURSIVE skip_tag_value(_, _, _)
RECURSIVE skip_compound(_, _)
RECURSIVE skip_list_elements(_, _, _, _, _)

\* the loop `for _ in 0..length { skip_tag_value(reader, list_type)?; }`,
\* from its iteration i
skip_list_elements(b, p, list_type, length, i) ==
    IF ~WordGe(length, i + 1) THEN Ret("Ok", p)
    ELSE LET r == skip_tag_value(b, p, list_type)
         IN  IF r.st # "Ok" THEN r
             ELSE Then(p, r, skip_list_elements(b, r.pos, list_type, length, i + 1))

skip_tag_value(b, p, tag_type) ==
    Frame(
    CASE tag_type = TAG_BYTE -> skip_fixed(b, p, 1)
      [] tag_type = TAG_SHORT -> skip_fixed(b, p, 2)
      [] tag_type = TAG_INT -> skip_fixed(b, p, 4)
      [] tag_type = TAG_LONG -> skip_fixed(b, p, 8)
      [] tag_type = TAG_FLOAT -> skip_fixed(b, p, 4)
      [] tag_type = TAG_DOUBLE -> skip_fixed(b, p, 8)
      [] tag_type = TAG_BYTE_ARRAY -> skip_array(b, p, 1)
      [] tag_type = TAG_STRING -> skip_string(b, p)
      [] tag_type = TAG_LIST ->
            LET t == read_exact(b, p, 1)
                l == read_exact(b, t.pos, 4)
                list_type == t.bytes[1]
                length == SignExtend(l.bytes)
            IN  IF ~t.ok THEN Ret("IoError", t.pos)
                ELSE IF ~l.ok THEN Ret("IoError", l.pos)
                ELSE CASE list_type = TAG_BYTE -> skip_bytes(b, l.pos, length)
                       [] list_type = TAG_SHORT -> skip_scaled(b, l.pos, length, 2)
                       [] list_type = TAG_INT -> skip_scaled(b, l.pos, length, 4)
                       [] list_type = TAG_LONG -> skip_scaled(b, l.pos, length, 8)
                       [] list_type = TAG_FLOAT -> skip_scaled(b, l.pos, length, 4)
                       [] list_type = TAG_DOUBLE -> skip_scaled(b, l.pos, length, 8)
                       [] OTHER ->
                            IF WordGe(length, 1)
                            THEN skip_list_elements(b, l.pos, list_type, length, 0)
                            ELSE Ret("Ok", l.pos)
      [] tag_type = TAG_COMPOUND -> skip_compound(b, p)
      [] tag_type = TAG_INT_ARRAY -> skip_array(b, p, 4)
      [] tag_type = TAG_LONG_ARRAY -> skip_array(b, p, 8)
      [] OTHER -> unknown_tag(p, tag_type))

RECURSIVE skip_compound_loop(_, _)

\* one iteration of skip_compound's loop and the iterations after it
skip_compound_loop(b, p) ==
    LET t == read_exact(b, p, 1)
    IN  IF ~t.ok THEN Ret("IoError", t.pos)
        ELSE IF t.bytes[1] = TAG_END THEN Ret("Ok", t.pos)
        ELSE LET s == skip_string(b, t.pos)
             IN  IF s.st # "Ok" THEN s
                 ELSE LET v == skip_tag_value(b, s.pos, t.bytes[1])
                      IN  IF v.st # "Ok" THEN v
                          ELSE Then(p, v, skip_compound_loop(b, v.pos))

skip_compound(b, p) == Frame(skip_compound_loop(b, p))

RECURSIVE search_compound_recursive(_, _, _, _)
RECURSIVE search_compound_loop(_, _, _, _)

\* read_inhabited_time with the value read unsigned (read_u16 for read_i16)
read_inhabited_time_unsigned(b, p, tag_type) ==
    LET width == CASE tag_type = TAG_LONG -> 8
                   [] tag_type = TAG_INT -> 4
                   [] tag_type = TAG_SHORT -> 2
                   [] tag_type = TAG_BYTE -> 1
                   [] OTHER -> 0
        r == read_exact(b, p, width)
    IN  IF width = 0 THEN Ret("InvalidFormat", p)
        ELSE IF ~r.ok THEN Ret("IoError", r.pos)
        ELSE RetSome(r.pos, ZeroExtend(r.bytes))

\* read_inhabited_time that takes a member of another kind for no member
read_inhabited_time_lenient(b, p, tag_type) ==
    LET width == CASE tag_type = TAG_LONG -> 8
                   [] tag_type = TAG_INT -> 4
                   [] tag_type = TAG_SHORT -> 2
                   [] tag_type = TAG_BYTE -> 1
                   [] OTHER -> 0
        r == read_exact(b, p, width)
    IN  IF width = 0 THEN Ret("Ok", p)
        ELSE IF ~r.ok THEN Ret("IoError", r.pos)
        ELSE RetSome(r.pos, SignExtend(r.bytes))

\* the `return match tag_type` of search_compound_recursive: the value of
\* a member named InhabitedTime, by its kind
read_inhabited_time(b, p, tag_type) ==
    LET width == CASE tag_type = TAG_LONG -> 8
                   [] tag_type = TAG_INT -> 4
                   [] tag_type = TAG_SHORT -> 2
                   [] tag_type = TAG_BYTE -> 1
                   [] OTHER -> 0
        r == read_exact(b, p, width)
    IN  IF width = 0 THEN Ret("InvalidFormat", p)
        ELSE IF ~r.ok THEN Ret("IoError", r.pos)
        ELSE RetSome(r.pos, SignExtend(r.bytes))

\* descends with the depth test off by one (<= for <)
descends_inclusive(tag_type, max_depth, current_depth) ==
    tag_type = TAG_COMPOUND /\ current_depth <= max_depth

\* whether the search recurses into a member that is not InhabitedTime
descends(tag_type, max_depth, current_depth) ==
    tag_type = TAG_COMPOUND /\ current_depth < max_depth

\* one iteration of search_compound_recursive's loop and the iterations
\* after it
search_compound_loop(b, p, max_depth, current_depth) ==
    LET t == read_exact(b, p, 1)
        tag_type == t.bytes[1]
    IN  IF ~t.ok THEN Ret("IoError", t.pos)
        ELSE IF tag_type = TAG_END THEN Ret("Ok", t.pos)
        ELSE LET n == is_inhabited_time_string(b, t.pos)
             IN  IF n.st # "Ok" THEN Ret(n.st, n.pos)
                 ELSE IF n.is THEN read_inhabited_time(b, n.pos, tag_type)
                 ELSE LET v == IF descends(tag_type, max_depth, current_depth)
                               THEN search_compound_recursive(
                                        b, n.pos, max_depth, current_depth + 1)
                               ELSE skip_tag_value(b, n.pos, tag_type)
                      IN  IF v.st # "Ok" \/ v.some THEN v
                          ELSE Then(p, v,
                                    search_compound_loop(
                                        b, v.pos, max_depth, current_depth))

search_compound_recursive(b, p, max_depth, current_depth) ==
    Frame(search_compound_loop(b, p, max_depth, current_depth))

search_compound(b, p, max_depth) == search_compound_recursive(b, p, max_depth, 0)

\* the depth extract_inhabited_time passes to search_compound
SEARCH_DEPTH == 2

extract_inhabited_time(chunk_data) ==
    LET t == read_exact(chunk_data, 0, 1)
    IN  IF ~t.ok THEN Ret("IoError", t.pos)
        ELSE IF t.bytes[1] # TAG_COMPOUND THEN Ret("InvalidFormat", t.pos)
        ELSE LET s == skip_string(chunk_data, t.pos)
             IN  IF s.st # "Ok" THEN s
                 ELSE search_compound(chunk_data, s.pos, SEARCH_DEPTH)

\* process_chunk: the scan, its error wrapped as ProcessError::ChunkError
process_chunk(chunk_data) ==
    LET r == extract_inhabited_time(chunk_data)
    IN  IF r.st \in {"IoError", "InvalidFormat"} THEN [r EXCEPT !.st = "ChunkError"]
        ELSE r

----------------------------------------------------------------------------
(* Scanner inputs.  A buffer is the encoding of a document: a chain of     *)
(* nested compounds below the root, one optional member `pre` placed first *)
(* in the compound at level lvl of the chain, and, in the compound at the  *)
(* end of the chain, an optional InhabitedTime member followed by an       *)
(* optional member `post`.  The buffer may be cut short.                   *)

\* the deepest chain of nested compounds below the root
MaxChain == 3

\* big-endian two's complement of v in w bytes (v within 32 bits)
BE(v, w) ==
    [i \in 1..w |-> IF w - i >= 4 THEN (IF v < 0 THEN 255 ELSE 0)
                    ELSE (v \div (256 ^ (w - i))) % 256]

U16(n) == BE(n, 2)

I32(n) == BE(n, 4)

\* a named member of a compound: kind, length-prefixed name, payload
Member(kind, name, payload) == <<kind>> \o U16(Len(name)) \o name \o payload

\* a list payload: element kind, declared count, the elements
List(kind, count, elements) == <<kind>> \o I32(count) \o elements

NameX == <<120>>

NameC == <<99>>

ItMember(kind, payload) == Member(kind, INHABITED_TIME, payload)

\* a list of one byte (n = 1), or of one list that nests n - 1 lists
RECURSIVE NestedList(_)
NestedList(n) ==
    IF n <= 1 THEN List(TAG_BYTE, 1, <<1>>) ELSE List(TAG_LIST, 1, NestedList(n - 1))

\* An atom: its bytes; its = the InhabitedTime-named members anywhere in
\* it; chain = the depths, relative to the compound holding the atom, of
\* those reachable through compounds only; bad = what is malformed in it:
\*   "span"  a declared non-negative length beyond the end of the buffer
\*   "kind"  a kind byte outside 0..12 that is dispatched on
\*   "kind0" such a kind byte as the element kind of an empty list
\*   "end"   element kind `end` in a list that declares elements
\*   "neg"   a negative declared length;  "max" the largest declared length
Atom(bytes, its, chain, bad) ==
    [bytes |-> bytes, its |-> its, chain |-> chain, bad |-> bad]

Good(bytes) == Atom(bytes, 0, {}, "ok")

Bad(bytes, bad) == Atom(bytes, 0, {}, bad)

AtomTable ==
    [none |-> Good(<<>>),
     byte |-> Good(Member(TAG_BYTE, NameX, <<7>>)),
     short |-> Good(Member(TAG_SHORT, NameX, <<1, 2>>)),
     int |-> Good(Member(TAG_INT, NameX, <<1, 2, 3, 4>>)),
     long |-> Good(Member(TAG_LONG, NameX, <<1, 2, 3, 4, 5, 6, 7, 8>>)),
     float |-> Good(Member(TAG_FLOAT, NameX, <<63, 128, 0, 0>>)),
     double |-> Good(Member(TAG_DOUBLE, NameX, <<63, 240, 0, 0, 0, 0, 0, 0>>)),
     byte_array |-> Good(Member(TAG_BYTE_ARRAY, NameX, I32(2) \o <<1, 2>>)),
     byte_array_70 |-> Good(Member(TAG_BYTE_ARRAY, NameX, I32(70) \o Fill(70, 1))),
     byte_array_1100 |->
         Good(Member(TAG_BYTE_ARRAY, NameX, I32(1100) \o Fill(1100, 1))),
     string |-> Good(Member(TAG_STRING, NameX, U16(3) \o <<97, 98, 99>>)),
     int_array |-> Good(Member(TAG_INT_ARRAY, NameX, I32(2) \o Fill(8, 9))),
     long_array |-> Good(Member(TAG_LONG_ARRAY, NameX, I32(1) \o Fill(8, 9))),
     list_end |-> Good(Member(TAG_LIST, NameX, List(TAG_END, 0, <<>>))),
     list_byte |-> Good(Member(TAG_LIST, NameX, List(TAG_BYTE, 3, <<1, 2, 3>>))),
     list_short |-> Good(Member(TAG_LIST, NameX, List(TAG_SHORT, 2, Fill(4, 5)))),
     list_int |-> Good(Member(TAG_LIST, NameX, List(TAG_INT, 1, Fill(4, 5)))),
     list_long |-> Good(Member(TAG_LIST, NameX, List(TAG_LONG, 1, Fill(8, 5)))),
     list_float |-> Good(Member(TAG_LIST, NameX, List(TAG_FLOAT, 2, Fill(8, 5)))),
     list_double |-> Good(Member(TAG_LIST, NameX, List(TAG_DOUBLE, 1, Fill(8, 5)))),
     list_string |->
         Good(Member(TAG_LIST, NameX,
                     List(TAG_STRING, 2, U16(1) \o <<97>> \o U16(0)))),
     list_byte_array |->
         Good(Member(TAG_LIST, NameX, List(TAG_BYTE_ARRAY, 1, I32(1) \o <<1>>))),
     list_int_array |->
         Good(Member(TAG_LIST, NameX, List(TAG_INT_ARRAY, 1, I32(1) \o Fill(4, 1)))),
     list_long_array |->
         Good(Member(TAG_LIST, NameX, List(TAG_LONG_ARRAY, 1, I32(1) \o Fill(8, 1)))),
     list_list |->
         Good(Member(TAG_LIST, NameX,
                     List(TAG_LIST, 2,
                          List(TAG_BYTE, 1, <<1>>)
                          \o List(TAG_COMPOUND, 1, <<TAG_END>>)))),
     list_compound |->
         Good(Member(TAG_LIST, NameX,
                     List(TAG_COMPOUND, 2,
                          Member(TAG_BYTE, NameX, <<1>>) \o <<TAG_END>>
                          \o <<TAG_END>>))),
     list_compound_it |->
         Atom(Member(TAG_LIST, NameX,
                     List(TAG_COMPOUND, 1,
                          ItMember(TAG_LONG, BE(9, 8)) \o <<TAG_END>>)),
              1, {}, "ok"),
     list_nested_1 |-> Good(Member(TAG_LIST, NameX, NestedList(1))),
     list_nested_2 |-> Good(Member(TAG_LIST, NameX, NestedList(2))),
     list_nested_3 |-> Good(Member(TAG_LIST, NameX, NestedList(3))),
     list_nested_4 |-> Good(Member(TAG_LIST, NameX, NestedList(4))),
     compound_empty |-> Good(Member(TAG_COMPOUND, NameX, <<TAG_END>>)),
     compound_plain |->
         Good(Member(TAG_COMPOUND, NameX,
                     Member(TAG_SHORT, NameX, <<1, 2>>) \o <<TAG_END>>)),
     compound_nested |->
         Good(Member(TAG_COMPOUND, NameX,
                     Member(TAG_COMPOUND, NameX,
                            Member(TAG_COMPOUND, NameX, <<TAG_END>>) \o <<TAG_END>>)
                     \o Member(TAG_INT, NameX, <<0, 0, 0, 1>>) \o <<TAG_END>>)),
     compound_it |->
         Atom(Member(TAG_COMPOUND, NameX,
                     ItMember(TAG_LONG, BE(7, 8)) \o <<TAG_END>>),
              1, {1}, "ok"),
     compound_it2 |->
         Atom(Member(TAG_COMPOUND, NameX,
                     Member(TAG_COMPOUND, NameX,
                            ItMember(TAG_INT, BE(8, 4)) \o <<TAG_END>>)
                     \o <<TAG_END>>),
              1, {2}, "ok"),
     name_empty |-> Good(Member(TAG_LONG, <<>>, BE(5, 8))),
     name_12 |-> Good(Member(TAG_LONG, SubSeq(INHABITED_TIME, 1, 12), BE(5, 8))),
     name_14 |-> Good(Member(TAG_LONG, INHABITED_TIME \o <<115>>, BE(5, 8))),
     name_case |->
         Good(Member(TAG_LONG, <<105>> \o SubSeq(INHABITED_TIME, 2, 13), BE(5, 8))),
     name_byte8 |->
         Good(Member(TAG_LONG,
                     SubSeq(INHABITED_TIME, 1, 7) \o <<69>>
                     \o SubSeq(INHABITED_TIME, 9, 13), BE(5, 8))),
     name_byte9 |->
         Good(Member(TAG_LONG,
                     SubSeq(INHABITED_TIME, 1, 8) \o <<68>>
                     \o SubSeq(INHABITED_TIME, 10, 13), BE(5, 8))),
     name_byte13 |->
         Good(Member(TAG_LONG, SubSeq(INHABITED_TIME, 1, 12) \o <<102>>, BE(5, 8))),
     kind_13 |-> Bad(Member(13, NameX, <<1>>), "kind"),
     kind_255 |-> Bad(Member(255, NameX, <<1>>), "kind"),
     list_kind_13 |-> Bad(Member(TAG_LIST, NameX, List(13, 1, <<0>>)), "kind"),
     list_kind_13_empty |-> Bad(Member(TAG_LIST, NameX, List(13, 0, <<>>)), "kind0"),
     list_end_1 |-> Bad(Member(TAG_LIST, NameX, List(TAG_END, 1, <<>>)), "end"),
     span_name |-> Bad(<<TAG_BYTE>> \o U16(1000) \o NameX \o <<1>>, "span"),
     span_string |-> Bad(Member(TAG_STRING, NameX, U16(1000) \o <<97>>), "span"),
     span_string_big |-> Bad(Member(TAG_STRING, NameX, U16(5000) \o <<97>>), "span"),
     span_byte_array |->
         Bad(Member(TAG_BYTE_ARRAY, NameX, I32(60) \o <<1, 2>>), "span"),
     span_byte_array_big |->
         Bad(Member(TAG_BYTE_ARRAY, NameX, I32(5000) \o <<1, 2>>), "span"),
     span_int_array |->
         Bad(Member(TAG_INT_ARRAY, NameX, I32(100) \o Fill(4, 1)), "span"),
     span_int_array_big |->
         Bad(Member(TAG_INT_ARRAY, NameX, I32(1000) \o Fill(4, 1)), "span"),
     span_long_array |->
         Bad(Member(TAG_LONG_ARRAY, NameX, I32(100) \o Fill(8, 1)), "span"),
     span_list_int |->
         Bad(Member(TAG_LIST, NameX, List(TAG_INT, 200, Fill(4, 1))), "span"),
     span_list_string |->
         Bad(Member(TAG_LIST, NameX, List(TAG_STRING, 50, U16(1) \o <<97>>)), "span"),
     neg_byte_array |->
         Bad(Member(TAG_BYTE_ARRAY, NameX, I32(-1) \o <<1>>), "neg"),
     neg_int_array |->
         Bad(Member(TAG_INT_ARRAY, NameX, I32(-1) \o Fill(4, 1)), "neg"),
     neg_long_array |->
         Bad(Member(TAG_LONG_ARRAY, NameX, I32(-2147483647) \o Fill(8, 1)), "neg"),
     neg_list_byte |->
         Bad(Member(TAG_LIST, NameX, List(TAG_BYTE, -1, <<1>>)), "neg"),
     neg_list_short |->
         Bad(Member(TAG_LIST, NameX, List(TAG_SHORT, -1, <<1, 1>>)), "neg"),
     neg_list_int |->
         Bad(Member(TAG_LIST, NameX, List(TAG_INT, -2, Fill(4, 1))), "neg"),
     neg_list_long |->
         Bad(Member(TAG_LIST, NameX, List(TAG_LONG, -1, Fill(8, 1))), "neg"),
     neg_list_float |->
         Bad(Member(TAG_LIST, NameX, List(TAG_FLOAT, -1, Fill(4, 1))), "neg"),
     neg_list_double |->
         Bad(Member(TAG_LIST, NameX, List(TAG_DOUBLE, -1, Fill(8, 1))), "neg"),
     neg_list_string |->
         Bad(Member(TAG_LIST, NameX, List(TAG_STRING, -1, U16(1) \o <<97>>)), "neg"),
     max_int_array |->
         Bad(Member(TAG_INT_ARRAY, NameX, I32(2147483647) \o Fill(4, 1)), "max"),
     max_long_array |->
         Bad(Member(TAG_LONG_ARRAY, NameX, I32(2147483647) \o Fill(8, 1)), "max"),
     max_list_double |->
         Bad(Member(TAG_LIST, NameX, List(TAG_DOUBLE, 2147483647, Fill(8, 1))),
             "max")]

AtomIds == DOMAIN AtomTable

WellFormedIds == {a \in AtomIds : AtomTable[a].bad = "ok"}

\* an InhabitedTime member: kind 0 stands for none
NoField == [kind |-> 0, v |-> 0]

FieldWidth(kind) ==
    CASE kind = TAG_BYTE -> 1 [] kind = TAG_SHORT -> 2
      [] kind = TAG_INT -> 4 [] kind = TAG_LONG -> 8

Fields ==
    [kind : {TAG_BYTE}, v : {-128, -1, 0, 100, 127}]
    \cup [kind : {TAG_SHORT}, v : {-32768, -1, 100, 255, 32767}]
    \cup [kind : {TAG_INT}, v : {-2147483647, -1, 101, 65536, 2147483647}]
    \cup [kind : {TAG_LONG}, v : {-2147483647, -1, 0, 100, 101, 2147483647}]

\* InhabitedTime-named members of the kinds that hold no integer (13 is
\* no kind at all)
WrongKindFields ==
    [kind : {TAG_FLOAT, TAG_DOUBLE, TAG_BYTE_ARRAY, TAG_STRING, TAG_LIST,
             TAG_COMPOUND, TAG_INT_ARRAY, TAG_LONG_ARRAY, 13},
     v : {0}]

\* a well-formed payload of each such kind
WrongKindPayload(kind) ==
    CASE kind = TAG_FLOAT -> <<63, 128, 0, 0>>
      [] kind = TAG_DOUBLE -> <<63, 240, 0, 0, 0, 0, 0, 0>>
      [] kind = TAG_BYTE_ARRAY -> I32(2) \o <<1, 2>>
      [] kind = TAG_STRING -> U16(3) \o <<97, 98, 99>>
      [] kind = TAG_LIST -> <<TAG_INT>> \o I32(1) \o <<0, 0, 0, 101>>
      [] kind = TAG_COMPOUND -> Member(TAG_LONG, NameX, BE(101, 8)) \o <<TAG_END>>
      [] kind = TAG_INT_ARRAY -> I32(1) \o <<0, 0, 0, 101>>
      [] kind = TAG_LONG_ARRAY -> I32(1) \o BE(101, 8)
      [] OTHER -> <<>>

FieldBytes(f) ==
    IF f.kind = 0 THEN <<>>
    ELSE IF f.kind \in {TAG_BYTE, TAG_SHORT, TAG_INT, TAG_LONG}
    THEN ItMember(f.kind, BE(f.v, FieldWidth(f.kind)))
    ELSE ItMember(f.kind, WrongKindPayload(f.kind))

RECURSIVE LevelBytes(_, _)
LevelBytes(d, k) ==
    (IF d.lvl = k THEN AtomTable[d.pre].bytes ELSE <<>>)
    \o (IF k < d.depth
        THEN Member(TAG_COMPOUND, NameC, LevelBytes(d, k + 1) \o <<TAG_END>>)
        ELSE FieldBytes(d.field) \o AtomTable[d.post].bytes)

Encode(d) == <<d.root>> \o U16(0) \o LevelBytes(d, 0) \o <<TAG_END>>

\* the buffer of a document: its encoding, cut to d.cut bytes when d.cut >= 0
Buffer(d) == IF d.cut < 0 THEN Encode(d) ELSE SubSeq(Encode(d), 1, d.cut)

\* a document: root = the kind byte of its root, a compound unless said
Doc(depth, lvl, pre, field, post, cut) ==
    [depth |-> depth, lvl |-> lvl, pre |-> pre, field |-> field, post |-> post,
     cut |-> cut, root |-> TAG_COMPOUND]

RootDoc(root, d) == [d EXCEPT !.root = root]

\* every member kind before the field, at every level of the chain
SiblingDocs ==
    {Doc(depth, lvl, pre, field, post, -1) :
        depth \in 0..MaxChain, lvl \in 0..MaxChain, pre \in AtomIds,
        field \in {NoField, [kind |-> TAG_LONG, v |-> 101],
                   [kind |-> TAG_SHORT, v |-> -1]},
        post \in {"none", "byte"}}

\* every field kind and value, at every level of the chain
FieldDocs ==
    {Doc(depth, lvl, pre, field, post, -1) :
        depth \in 0..MaxChain, lvl \in 0..MaxChain, pre \in {"none", "compound_plain"},
        field \in Fields, post \in {"none", "kind_13"}}

\* every proper prefix of the documents with one member before the field
CutDocs ==
    UNION {{Doc(0, 0, pre, field, "none", cut) :
                cut \in 0..(Len(Encode(Doc(0, 0, pre, field, "none", -1))) - 1)} :
           pre \in WellFormedIds \ {"byte_array_1100"},
           field \in {NoField, [kind |-> TAG_INT, v |-> 101]}}

\* an InhabitedTime-named member of every other kind, at every level
WrongKindDocs ==
    {Doc(depth, lvl, pre, field, post, -1) :
        depth \in 0..MaxChain, lvl \in 0..MaxChain,
        pre \in {"none", "compound_plain", "list_compound_it"},
        field \in WrongKindFields, post \in {"none", "byte"}}

\* every other kind byte at the root
RootDocs ==
    {RootDoc(root, Doc(0, 0, "none", field, "none", -1)) :
        root \in ((0..13) \cup {255}) \ {TAG_COMPOUND},
        field \in {NoField, [kind |-> TAG_LONG, v |-> 101]}}

\* the deepest chain of compounds among the documents that only nest
MaxNest == 5

\* how many lists each list_nested_ member nests
ListNest ==
    [none |-> 0, list_nested_1 |-> 1, list_nested_2 |-> 2, list_nested_3 |-> 3,
     list_nested_4 |-> 4]

\* nothing but nesting: a chain of compounds with, in the last of them,
\* nothing or nested lists
NestDocs ==
    {Doc(depth, depth, pre, NoField, "none", -1) :
        depth \in 0..MaxNest, pre \in DOMAIN ListNest}

Docs ==
    {d \in SiblingDocs \cup FieldDocs \cup WrongKindDocs : d.lvl <= d.depth}
    \cup CutDocs \cup RootDocs \cup NestDocs

\* the InhabitedTime-named members of the document
ItCount(d) ==
    (IF d.field.kind = 0 THEN 0 ELSE 1) + AtomTable[d.pre].its + AtomTable[d.post].its

\* the depths (root compound = 0) of those reachable through compounds only
ItDepths(d) ==
    (IF d.field.kind = 0 THEN {} ELSE {d.depth})
    \cup {d.lvl + r : r \in AtomTable[d.pre].chain}
    \cup {d.depth + r : r \in AtomTable[d.post].chain}

WellFormed(d) ==
    /\ d.cut < 0
    /\ d.root = TAG_COMPOUND
    /\ d.field.kind \in 0..12
    /\ AtomTable[d.pre].bad = "ok"
    /\ AtomTable[d.post].bad = "ok"

----------------------------------------------------------------------------
(* The scan of one buffer.                                                 *)

Pending == Ret("Pending", 0)

\* no directory is being processed
\* no statistics are being merged on their own
MergeIdle ==
    /\ merge_before = <<>>
    /\ merge_parts = <<>>
    /\ merge_total = <<>>
    /\ merge_done = {}

PipelineIdle ==
    /\ dry_run = FALSE
    /\ delete_regions = FALSE
    /\ threshold = 0
    /\ dir = <<>>
    /\ phase = "idle"
    /\ runs = 0
    /\ work = <<>>
    /\ history = <<>>
    /\ orig = <<>>

InitScan ==
    /\ overflow_checks \in BOOLEAN
    /\ doc \in Docs
    /\ buf = Buffer(doc)
    /\ res = Pending
    /\ PipelineIdle
    /\ MergeIdle

\* extract_inhabited_time(&chunk_data)
Scan ==
    /\ res = Pending
    /\ res' = extract_inhabited_time(buf)
    /\ UNCHANGED <<overflow_checks, doc, buf>>
    /\ UNCHANGED <<pipeVars, mergeVars>>

NextScan == Scan

SpecScan == InitScan /\ [][NextScan]_vars

----------------------------------------------------------------------------
(* Properties of the scan.                                                 *)

Scanned == res # Pending

\* offset of the member `pre` in the buffer: the root's kind and name, and
\* kind and name of each compound of the chain above it
PreStart(d) == 3 + 4 * d.lvl

\* length of the name of the member encoded at the head of bytes
NameLen(bytes) == bytes[2] * 256 + bytes[3]

\* size of the length prefix of a member of this kind (0: not a span)
PrefixLen(kind) ==
    CASE kind = TAG_STRING -> 2
      [] kind \in {TAG_BYTE_ARRAY, TAG_INT_ARRAY, TAG_LONG_ARRAY} -> 4
      [] kind = TAG_LIST -> 5
      [] OTHER -> 0

\* a buffer of k bytes ends inside the name of the member at offset start
CutInName(start, bytes, k) ==
    Len(bytes) > 0 /\ start + 3 <= k /\ k < start + 3 + NameLen(bytes)

\* a buffer of k bytes ends inside the length-prefixed payload of the
\* member at offset start
CutInData(start, bytes, k) ==
    /\ Len(bytes) > 0
    /\ PrefixLen(bytes[1]) > 0
    /\ start + 3 + NameLen(bytes) + PrefixLen(bytes[1]) <= k
    /\ k < start + Len(bytes)

CutInPre(d) ==
    \/ CutInName(PreStart(d), AtomTable[d.pre].bytes, d.cut)
    \/ CutInData(PreStart(d), AtomTable[d.pre].bytes, d.cut)

CutInFieldName(d) ==
    CutInName(PreStart(d) + Len(AtomTable[d.pre].bytes), FieldBytes(d.field), d.cut)

\* the buffer holds a length-prefixed span cut short by the end of the
\* buffer, and the scan gets to it: nothing before it is an InhabitedTime
\* member that ends the scan
ReachedTruncatedSpan(d) ==
    d.cut >= 0 /\ (CutInPre(d) \/ (AtomTable[d.pre].chain = {} /\ CutInFieldName(d)))

\* the first member holds a span of declared non-negative length that runs
\* past the end of the buffer
OverlongSpan(d) == d.cut < 0 /\ AtomTable[d.pre].bad = "span"

\* the first member holds a kind byte outside 0..12
BadKindByte(d) == d.cut < 0 /\ AtomTable[d.pre].bad \in {"kind", "kind0"}

\* C1: a well-formed buffer with exactly one InhabitedTime member, of kind
\* byte, short, int or long, in the root compound or in a compound at most
\* SEARCH_DEPTH levels below it, scans to Ok(Some(v)), v the member's value
\* sign-extended to 64 bits, whatever precedes the member.
C1_FieldFound ==
    (/\ Scanned
     /\ WellFormed(doc)
     /\ ItCount(doc) = 1
     /\ doc.field.kind \in {TAG_BYTE, TAG_SHORT, TAG_INT, TAG_LONG}
     /\ doc.depth <= SEARCH_DEPTH)
    => (res.st = "Ok" /\ res.some /\ res.val = BE(doc.field.v, 8))

\* a negative short two compounds below the root, after a list of compounds
C1_Witness ==
    /\ Scanned
    /\ doc.depth = 2 /\ doc.lvl = 2 /\ doc.pre = "list_compound"
    /\ doc.field = [kind |-> TAG_SHORT, v |-> -1]
    /\ res.some /\ res.val = <<255, 255, 255, 255, 255, 255, 255, 255>>

\* C2: a well-formed buffer with no InhabitedTime member in a compound
\* within the depth bound scans to Ok(None), also when such a member lies
\* below the bound or inside a list element.
C2_AbsentWithinDepth ==
    (/\ Scanned
     /\ WellFormed(doc)
     /\ ItDepths(doc) \cap (0..SEARCH_DEPTH) = {})
    => (res.st = "Ok" /\ ~res.some)

\* a member three compounds below the root, behind one inside a list element
C2_Witness ==
    /\ Scanned
    /\ doc.depth = 3 /\ doc.field.kind = TAG_LONG /\ doc.pre = "list_compound_it"
    /\ res.st = "Ok" /\ ~res.some

C15_UnexpectedKind ==
    Scanned =>
        /\ (/\ doc.cut < 0
            /\ doc.root = TAG_COMPOUND
            /\ AtomTable[doc.pre].bad = "ok"
            /\ AtomTable[doc.pre].chain = {}
            /\ doc.field.kind \notin {0, TAG_BYTE, TAG_SHORT, TAG_INT, TAG_LONG}
            /\ doc.depth <= SEARCH_DEPTH)
           => (res.st = "InvalidFormat" /\ ~res.some)
        /\ (doc.root # TAG_COMPOUND /\ Len(buf) > 0)
           => (res.st = "InvalidFormat" /\ ~res.some)

\* a compound named InhabitedTime two levels below the root
C15_Witness ==
    /\ Scanned
    /\ doc.depth = 2
    /\ doc.field.kind = TAG_COMPOUND
    /\ doc.pre = "list_compound_it"
    /\ res.st = "InvalidFormat"

\* d with its nesting cut off: its chain of compounds one level below the
\* depth limit, its nested lists a single list
Shallow(d) ==
    [d EXCEPT !.depth = Min(@, SEARCH_DEPTH + 1),
              !.lvl = Min(@, SEARCH_DEPTH + 1),
              !.pre = IF ListNest[@] > 1 THEN "list_nested_1" ELSE @]

\* C16: the calls of search_compound_recursive, skip_tag_value and
\* skip_compound active at once depend on the depth limit only and not on how
\* deeply the input nests: a document that only nests compounds and lists
\* holds no more of them than the same document with its nesting cut off one
\* level below the limit.
C16_RecursionBounded ==
    (Scanned /\ doc \in NestDocs) =>
        res.dep <= extract_inhabited_time(Buffer(Shallow(doc))).dep

\* What the calls active at once are: one search_compound_recursive for each
\* level down to the limit, then a skip_tag_value and a skip_compound for
\* each compound below it, and a skip_tag_value for each nested list.
C16_FramesGrowWithNesting ==
    (Scanned /\ doc \in NestDocs) =>
        /\ res.st = "Ok"
        /\ res.dep = Min(doc.depth, SEARCH_DEPTH) + 1
                     + 2 * Max(doc.depth - SEARCH_DEPTH, 0)
                     + ListNest[doc.pre]

\* a chain of compounds three levels below the limit
C16_Witness ==
    /\ Scanned
    /\ doc \in NestDocs
    /\ doc.depth = SEARCH_DEPTH + 3
    /\ doc.pre = "none"
    /\ res.dep = SEARCH_DEPTH + 1 + 6

\* C19: the scan of a finite buffer ends: every iteration of the loops of
\* search_compound_recursive and skip_compound and every skip of a list
\* element that goes on to the next one has moved the cursor forward, and
\* the cursor stays within the buffer, whatever count and element kind a
\* list declares.
C19_EveryIterationConsumes ==
    Scanned =>
        /\ ~res.stall
        /\ res.pos <= Len(buf)
        /\ res.st \in {"Ok", "IoError", "InvalidFormat", "Panic"}

\* a list of strings that declares 2^64 - 1 elements and a list that
\* declares one element of kind `end`, each reached and ended by an error
C19_Witness ==
    /\ Scanned
    /\ doc.cut < 0
    /\ \/ doc.pre = "neg_list_string" /\ res.st = "IoError"
       \/ doc.pre = "list_end_1" /\ res.st = "InvalidFormat"
    /\ doc.lvl = 1 /\ doc.depth = 1
    /\ res.pos > 3

\* C4: every scan ends in Ok or Err, no length * width overflows the
\* machine word and nothing panics.
C4_NoOverflowNoPanic ==
    Scanned => (res.st \in {"Ok", "IoError", "InvalidFormat"} /\ ~res.ovf)

----------------------------------------------------------------------------
(* lib.rs: paths.  A path is the sequence of its characters; all paths are *)
(* entries of the one directory that is processed.                         *)

PathA == <<"a", ".", "m", "c", "a">>

PathB == <<"b", ".", "M", "C", "A">>

PathD == <<"l", ".", "d", "a", "t">>

\* format!("{}-temp.mca", region_path.display())
temp_path(region_path) ==
    region_path \o <<"-", "t", "e", "m", "p", ".", "m", "c", "a">>

\* u8::to_ascii_lowercase
to_ascii_lowercase(c) ==
    LET upper == [A |-> "a", B |-> "b", C |-> "c", D |-> "d", E |-> "e", F |-> "f",
                  G |-> "g", H |-> "h", I |-> "i", J |-> "j", K |-> "k", L |-> "l",
                  M |-> "m", N |-> "n", O |-> "o", P |-> "p", Q |-> "q", R |-> "r",
                  S |-> "s", T |-> "t", U |-> "u", V |-> "v", W |-> "w", X |-> "x",
                  Y |-> "y", Z |-> "z"]
    IN  IF c \in DOMAIN upper THEN upper[c] ELSE c

\* str::eq_ignore_ascii_case
eq_ignore_ascii_case(a, b) ==
    /\ Len(a) = Len(b)
    /\ \A i \in 1..Len(a) : to_ascii_lowercase(a[i]) = to_ascii_lowercase(b[i])

\* Path::extension: what follows the last dot of the file name, none when
\* there is no dot or the only dot leads the name
extension(path) ==
    LET dots == {i \in 1..Len(path) : path[i] = "."}
        last == CHOOSE i \in dots : \A j \in dots : j <= i
    IN  IF dots = {} \/ last = 1 THEN [some |-> FALSE, ext |-> <<>>]
        ELSE [some |-> TRUE, ext |-> SubSeq(path, last + 1, Len(path))]

\* the filter of find_region_files
is_region_file(path) ==
    LET e == extension(path)
    IN  e.some /\ eq_ignore_ascii_case(e.ext, <<"m", "c", "a">>)

----------------------------------------------------------------------------
(* lib.rs: files.  A file is                                               *)
(*   ino       which file it is: a file keeps it when it is renamed or     *)
(*             truncated, a created file gets a new one                    *)
(*   readable  whether fs::File::open succeeds on it                       *)
(*   valid     whether it holds a region header (from_stream succeeds)     *)
(*   cells     (x, z) -> the chunk stored there, for the cells that hold   *)
(*             one: the name of its bytes in BlobTable, or "unreadable"    *)
(*             when read_chunk fails on it                                 *)

\* the side of a region's grid of chunks
REGION_SIDE == 32

Cells == (0..(REGION_SIDE - 1)) \X (0..(REGION_SIDE - 1))

File(ino, readable, valid, cells) ==
    [ino |-> ino, readable |-> readable, valid |-> valid, cells |-> cells]

Ino(run, path) == [run |-> run, path |-> path]

NoIno == Ino(-1, <<>>)

\* the chunks of the region files: a name and the bytes
BlobTable ==
    [above |-> Buffer(Doc(0, 0, "none", [kind |-> TAG_LONG, v |-> 101], "none", -1)),
     equal |-> Buffer(Doc(1, 0, "list_compound", [kind |-> TAG_INT, v |-> 100],
                          "none", -1)),
     negative |-> Buffer(Doc(2, 1, "string", [kind |-> TAG_BYTE, v |-> -1], "byte", -1)),
     absent |-> Buffer(Doc(3, 0, "none", [kind |-> TAG_LONG, v |-> 101], "none", -1)),
     garbled |-> Buffer(Doc(0, 0, "kind_13", NoField, "none", -1)),
     cut_short |-> Buffer(Doc(0, 0, "int_array", NoField, "none", 12)),
     overflowing |-> Buffer(Doc(0, 0, "neg_int_array", NoField, "none", -1))]

\* the InhabitedTime each chunk was built with in a compound within the
\* depth bound (<<>> when it has none there)
BlobValue ==
    [above |-> <<101>>, equal |-> <<100>>, negative |-> <<-1>>, absent |-> <<>>,
     garbled |-> <<>>, cut_short |-> <<>>, overflowing |-> <<>>]

\* the chunks that are no well-formed buffer
BlobsMalformed == {"garbled", "cut_short", "overflowing"}

----------------------------------------------------------------------------
(* lib.rs: statistics.                                                     *)

ChunkStats(total_chunks, inhabited_chunks) ==
    [total_chunks |-> total_chunks, inhabited_chunks |-> inhabited_chunks]

RegionStats(total_regions, deleted_regions, chunk_stats) ==
    [total_regions |-> total_regions, deleted_regions |-> deleted_regions,
     chunk_stats |-> chunk_stats]

\* ChunkStats::default(), RegionStats::default()
ChunkStatsDefault == ChunkStats(0, 0)

RegionStatsDefault == RegionStats(0, 0, ChunkStatsDefault)

\* The counters are u32.  The model's integers are 32 bits wide and signed,
\* so a counter is kept as the integer that has its 32 bits: a count below
\* 2^31 is itself, a count n from 2^31 on is n - 2^32.

\* `a += b` on u32: v = the sum modulo 2^32, ovf = whether it passed 2^32 - 1
u32_add(a, b) ==
    IF a >= 0 /\ b >= 0
    THEN [v |-> IF a > 2147483647 - b
                THEN ((a - 2147483647) + (b - 2147483647)) - 2
                ELSE a + b,
          ovf |-> FALSE]
    ELSE IF a < 0 /\ b < 0
    THEN [v |-> IF a >= ((-2147483647) - b) - 1
                THEN a + b
                ELSE ((a + 2147483647) + (b + 2147483647)) + 2,
          ovf |-> TRUE]
    ELSE [v |-> a + b, ovf |-> a + b >= 0]

\* a <= b on u32
u32_le(a, b) == IF (a >= 0) = (b >= 0) THEN a <= b ELSE a >= 0

\* ChunkStats::merge
chunk_stats_merge(self, other) ==
    ChunkStats(u32_add(self.total_chunks, other.total_chunks).v,
               u32_add(self.inhabited_chunks, other.inhabited_chunks).v)

\* RegionStats::merge that leaves deleted_regions as it is
region_stats_merge_keeping_deleted(self, other) ==
    RegionStats(u32_add(self.total_regions, other.total_regions).v,
                self.deleted_regions,
                chunk_stats_merge(self.chunk_stats, other.chunk_stats))

\* RegionStats::merge
region_stats_merge(self, other) ==
    RegionStats(u32_add(self.total_regions, other.total_regions).v,
                u32_add(self.deleted_regions, other.deleted_regions).v,
                chunk_stats_merge(self.chunk_stats, other.chunk_stats))

\* whether one of the four `+=` of RegionStats::merge overflows
region_stats_merge_overflows(self, other) ==
    \/ u32_add(self.total_regions, other.total_regions).ovf
    \/ u32_add(self.deleted_regions, other.deleted_regions).ovf
    \/ u32_add(self.chunk_stats.total_chunks, other.chunk_stats.total_chunks).ovf
    \/ u32_add(self.chunk_stats.inhabited_chunks,
               other.chunk_stats.inhabited_chunks).ovf

----------------------------------------------------------------------------
(* lib.rs: process_region, one call per region path.  The call is cut into *)
(* steps at its file operations; its state is                              *)
(*   pc      "queued"; "remove", "open_temp", "new_region", "write": the   *)
(*           next file operation; "ok", "err": returned                    *)
(*   error   the ProcessError of an "err"                                  *)
(*   stats   region_stats                                                  *)
(*   chunks  the kept chunks: (x, z) -> the bytes (by name)                *)
(*   deleted_count                                                         *)
(*   tmp     the file that temp_file is open on                            *)
(*   todo    the cells of chunks that the write loop has not reached       *)

Worker(pc, error, stats, chunks, deleted_count, tmp, todo) ==
    [pc |-> pc, error |-> error, stats |-> stats, chunks |-> chunks,
     deleted_count |-> deleted_count, tmp |-> tmp, todo |-> todo]

Queued == Worker("queued", "none", RegionStatsDefault, <<>>, 0, NoIno, {})

Failed(error) == Worker("err", error, RegionStatsDefault, <<>>, 0, NoIno, {})

Panicked == Worker("panic", "none", RegionStatsDefault, <<>>, 0, NoIno, {})

\* the position of a cell in the loops `for x in 0..32 { for z in 0..32`
CellOrder(c) == c[1] * REGION_SIDE + c[2]

\* the first cell of a non-empty set in loop order
FirstCell(cs) == CHOOSE c \in cs : \A d \in cs : CellOrder(c) <= CellOrder(d)

\* is_inhabited with >= for >
is_inhabited_inclusive(inhabited_time, thr) ==
    inhabited_time.some /\ ~I64Gt(ZeroExtend(BE(thr, 4)), inhabited_time.val)

\* inhabited_time.is_some() && inhabited_time.unwrap() > threshold as i64
is_inhabited(inhabited_time, thr) ==
    inhabited_time.some /\ I64Gt(inhabited_time.val, ZeroExtend(BE(thr, 4)))

\* deletes_region without the test for an empty region
deletes_region_when_empty(region_stats) ==
    region_stats.chunk_stats.inhabited_chunks = 0

\* the test of region deletion mode
deletes_region(region_stats) ==
    /\ region_stats.chunk_stats.inhabited_chunks = 0
    /\ region_stats.chunk_stats.total_chunks > 0

\* compacts without the test for dropped chunks
compacts_always(dry, deleted_count) == ~dry

\* compacts without the test for a dry run
compacts_in_dry_run(dry, deleted_count) == deleted_count > 0

\* the test of chunk deletion mode
compacts(dry, deleted_count) == ~dry /\ deleted_count > 0

\* first_pass_over that passes over a chunk whose scan fails
first_pass_over_skipping_errors(file, scans) ==
    LET present == {c \in DOMAIN scans : scans[c].st = "Ok"}
        kept == {c \in present : is_inhabited(scans[c], threshold)}
    IN  [st |-> "Ok",
         chunk_stats |-> ChunkStats(Cardinality(present), Cardinality(kept)),
         deleted_count |-> Cardinality(present \ kept),
         chunks |-> [c \in kept |-> file.cells[c]]]

\* the first pass over scanned chunks: scans maps each chunk that read_chunk
\* returned to the result of process_chunk
first_pass_over(file, scans) ==
    LET present == DOMAIN scans
        bad == {c \in present : scans[c].st # "Ok"}
        kept == {c \in present : is_inhabited(scans[c], threshold)}
    IN  [st |-> IF bad = {} THEN "Ok" ELSE scans[FirstCell(bad)].st,
         chunk_stats |-> ChunkStats(Cardinality(present), Cardinality(kept)),
         deleted_count |-> Cardinality(present \ kept),
         chunks |-> [c \in kept |-> file.cells[c]]]

\* the first pass: `if let Ok(Some(chunk_data)) = mca.read_chunk(x, z)`
\* passes over a chunk that is absent or that cannot be read
first_pass(file) ==
    first_pass_over(file,
        [c \in {c \in DOMAIN file.cells \cap Cells : file.cells[c] # "unreadable"} |->
            process_chunk(BlobTable[file.cells[c]])])

\* process_region after its first pass, to its first change of the directory
process_region_decide(pass) ==
    LET region_stats ==
            RegionStats(1, 0, chunk_stats_merge(ChunkStatsDefault, pass.chunk_stats))
        goes(pc, stats) ==
            Worker(pc, "none", stats, pass.chunks, pass.deleted_count, NoIno,
                   IF pc = "ok" THEN {} ELSE DOMAIN pass.chunks)
    IN  IF pass.st = "Panic" THEN Panicked
        ELSE IF pass.st # "Ok" THEN Failed("ChunkError")
        ELSE IF delete_regions
        THEN IF deletes_region(region_stats)
             THEN IF ~dry_run THEN goes("remove", region_stats)
                  ELSE goes("ok", [region_stats EXCEPT !.deleted_regions = 1])
             ELSE goes("ok", region_stats)
        ELSE IF compacts(dry_run, pass.deleted_count)
             THEN goes("open_temp", region_stats)
             ELSE goes("ok", region_stats)

\* process_region from its start to its first change of the directory:
\* open, from_stream, the first pass, and the choice of what to do
process_region_read(region_path) ==
    IF region_path \notin DOMAIN dir \/ ~dir[region_path].readable
    THEN Failed("IoError")
    ELSE IF ~dir[region_path].valid THEN Failed("RegionError")
    ELSE process_region_decide(first_pass(dir[region_path]))

\* the calls of process_region that hold a thread of the pool
Active == {r \in DOMAIN work : work[r].pc \notin {"queued", "ok", "err", "panic"}}

\* the size of rayon's thread pool
Threads == 2

\* whether temp_file is still the file at the temporary path
Attached(r) ==
    temp_path(r) \in DOMAIN dir /\ dir[temp_path(r)].ino = work[r].tmp

\* the directory with path p holding file f
Put(d, p, f) == [q \in DOMAIN d \cup {p} |-> IF q = p THEN f ELSE d[q]]

\* the directory without path p
Remove(d, p) == [q \in DOMAIN d \ {p} |-> d[q]]

Frozen == UNCHANGED <<dry_run, delete_regions, threshold, runs, history, orig>>

\* process_region(r) has come to `next`; a panic in it ends the run
Took(r, next) ==
    /\ work' = [work EXCEPT ![r] = next]
    /\ phase' = IF next.pc = "panic" THEN "panicked" ELSE phase

\* a pool thread takes the region: fs::File::open ... the first pass
OpenRegion(r) ==
    /\ phase = "running"
    /\ work[r].pc = "queued"
    /\ Cardinality(Active) < Threads
    /\ Took(r, process_region_read(r))
    /\ UNCHANGED dir
    /\ Frozen
    /\ UNCHANGED <<scanVars, mergeVars>>

\* fs::remove_file(region_path)?
RemoveFile(r) ==
    /\ phase = "running"
    /\ work[r].pc = "remove"
    /\ \/ /\ r \in DOMAIN dir
          /\ dir' = Remove(dir, r)
          /\ work' = [work EXCEPT ![r].pc = "ok", ![r].stats.deleted_regions = 1,
                                  ![r].todo = {}]
       \/ /\ work' = [work EXCEPT ![r] = Failed("IoError")]
          /\ UNCHANGED dir
    /\ UNCHANGED phase
    /\ Frozen
    /\ UNCHANGED <<scanVars, mergeVars>>

\* OpenOptions::new().create(true).write(true).read(true).truncate(true)
\*     .open(&temp_path)?
OpenTemp(r) ==
    /\ phase = "running"
    /\ work[r].pc = "open_temp"
    /\ LET t == temp_path(r)
       IN  \/ /\ t \in DOMAIN dir => dir[t].readable
              /\ LET f == IF t \in DOMAIN dir
                          THEN File(dir[t].ino, TRUE, FALSE, <<>>)
                          ELSE File(Ino(runs, r), TRUE, FALSE, <<>>)
                 IN  /\ dir' = Put(dir, t, f)
                     /\ work' = [work EXCEPT ![r].pc = "new_region", ![r].tmp = f.ino]
           \/ /\ work' = [work EXCEPT ![r] = Failed("IoError")]
              /\ UNCHANGED dir
    /\ UNCHANGED phase
    /\ Frozen
    /\ UNCHANGED <<scanVars, mergeVars>>

\* fastanvil::Region::new(temp_file).map_err(..)?
NewRegion(r) ==
    /\ phase = "running"
    /\ work[r].pc = "new_region"
    /\ \/ /\ dir' = IF Attached(r)
                    THEN [dir EXCEPT ![temp_path(r)].valid = TRUE]
                    ELSE dir
          /\ work' = [work EXCEPT ![r].pc = "write"]
       \/ /\ work' = [work EXCEPT ![r] = Failed("RegionError")]
          /\ UNCHANGED dir
    /\ UNCHANGED phase
    /\ Frozen
    /\ UNCHANGED <<scanVars, mergeVars>>

\* one iteration of the write loop that holds a kept chunk:
\* if let Err(e) = new_region.write_chunk(x, z, chunk_data) { warn!(..) }
WriteChunk(r) ==
    /\ phase = "running"
    /\ work[r].pc = "write"
    /\ work[r].todo # {}
    /\ LET c == FirstCell(work[r].todo)
           t == temp_path(r)
       IN  /\ \/ dir' = IF Attached(r)
                        THEN [dir EXCEPT ![t].cells = Put(@, c, work[r].chunks[c])]
                        ELSE dir
              \/ UNCHANGED dir
           /\ work' = [work EXCEPT ![r].todo = @ \ {c}]
    /\ UNCHANGED phase
    /\ Frozen
    /\ UNCHANGED <<scanVars, mergeVars>>

\* fs::rename(&temp_path, region_path)?
Rename(r) ==
    /\ phase = "running"
    /\ work[r].pc = "write"
    /\ work[r].todo = {}
    /\ LET t == temp_path(r)
       IN  \/ /\ t \in DOMAIN dir
              /\ dir' = Remove(Put(dir, r, dir[t]), t)
              /\ work' = [work EXCEPT ![r].pc = "ok"]
           \/ /\ work' = [work EXCEPT ![r] = Failed("IoError")]
              /\ UNCHANGED dir
    /\ UNCHANGED phase
    /\ Frozen
    /\ UNCHANGED <<scanVars, mergeVars>>

----------------------------------------------------------------------------
(* lib.rs: process_directory.                                              *)

\* the calls of process_directory in one behaviour
MaxRuns == 2

RECURSIVE Orders(_)
\* the orders in which read_dir may list a set of entries
Orders(S) ==
    IF S = {} THEN {<<>>}
    ELSE UNION {{<<x>> \o o : o \in Orders(S \ {x})} : x \in S}

\* find_region_files: the entries whose extension is mca in any case
find_region_files(d) == Orders({path \in DOMAIN d : is_region_file(path)})

\* what a call of process_directory returned and logged: ret its Result,
\* reported whether the two summary lines were logged, stats the totals
Report(ret, reported, stats) == [ret |-> ret, reported |-> reported, stats |-> stats]

\* aggregate_result that counts a failed region as processed
aggregate_result_counting_errors(total_stats, result) ==
    IF result.pc = "ok" THEN region_stats_merge(total_stats, result.stats)
    ELSE [total_stats EXCEPT !.total_regions = @ + 1]

\* the body of `for result in results`: Ok(stats) is merged, Err is logged
aggregate_result(total_stats, result) ==
    IF result.pc = "ok" THEN region_stats_merge(total_stats, result.stats)
    ELSE total_stats

RECURSIVE aggregate(_, _, _)
\* the loop `for result in results`, from result i on; results are in the
\* order of the Vec<PathBuf> of find_region_files
aggregate(total_stats, found, i) ==
    IF i > Len(found) THEN total_stats
    ELSE aggregate(aggregate_result(total_stats, work[found[i]]), found, i + 1)

\* process_directory is called: find_region_files(path)?, and the return
\* on an empty list; or read_dir fails
StartRun ==
    /\ phase \in {"idle", "done", "panicked"}
    /\ runs < MaxRuns
    /\ runs' = runs + 1
    /\ orig' = dir
    /\ \/ \E found \in find_region_files(dir) :
            /\ work' = [r \in {found[i] : i \in 1..Len(found)} |-> Queued]
            /\ IF found = <<>>
               THEN /\ phase' = "done"
                    /\ history' = Append(history, Report("Ok", FALSE, RegionStatsDefault))
               ELSE /\ phase' = "running"
                    /\ UNCHANGED history
       \/ /\ work' = <<>>
          /\ phase' = "done"
          /\ history' = Append(history, Report("Err", FALSE, RegionStatsDefault))
    /\ UNCHANGED <<dry_run, delete_regions, threshold, dir>>
    /\ UNCHANGED <<scanVars, mergeVars>>

\* every region has returned: the results are aggregated, in the order in
\* which read_dir listed the regions, and reported
Aggregate ==
    /\ phase = "running"
    /\ \A r \in DOMAIN work : work[r].pc \in {"ok", "err"}
    /\ phase' = "done"
    /\ \E found \in Orders(DOMAIN work) :
          history' = Append(history,
                            Report("Ok", TRUE, aggregate(RegionStatsDefault, found, 1)))
    /\ UNCHANGED <<dry_run, delete_regions, threshold, dir, runs, work, orig>>
    /\ UNCHANGED <<scanVars, mergeVars>>

\* The process may die between any two steps: every reachable state with
\* phase "running" is a state in which the directory may be left.  A panic
\* of a pool thread ends the call without a return; the steps that the other
\* threads may still take are steps they may take before it.

Next ==
    \/ StartRun
    \/ \E r \in DOMAIN work : OpenRegion(r)
    \/ \E r \in DOMAIN work : RemoveFile(r)
    \/ \E r \in DOMAIN work : OpenTemp(r)
    \/ \E r \in DOMAIN work : NewRegion(r)
    \/ \E r \in DOMAIN work : WriteChunk(r)
    \/ \E r \in DOMAIN work : Rename(r)
    \/ Aggregate

----------------------------------------------------------------------------
(* Directories.                                                            *)

\* chunks are present only at coordinates 0..MaxCoord
MaxCoord == 1

\* the most chunks a region of InitRegion holds
MaxPresent == 2

\* the most region files of a directory of Init
MaxFiles == 2

\* no buffer is being scanned on its own
ScanIdle ==
    /\ overflow_checks \in BOOLEAN
    /\ doc = Doc(0, 0, "none", NoField, "none", -1)
    /\ buf = <<>>
    /\ res = Pending

NotStarted ==
    /\ phase = "idle"
    /\ runs = 0
    /\ work = <<>>
    /\ history = <<>>
    /\ orig = <<>>

\* a file that is no region file
OtherFile == File(Ino(0, PathD), TRUE, FALSE, <<>>)

WindowCells == (0..MaxCoord) \X (0..MaxCoord)

\* every grid of at most MaxPresent chunks
RichGrids ==
    UNION {[S -> {"above", "equal", "negative", "absent", "garbled", "cut_short",
                 "overflowing", "unreadable"}] :
           S \in {T \in SUBSET WindowCells : Cardinality(T) <= MaxPresent}}

\* one region file with any grid
InitRegion ==
    /\ ScanIdle
    /\ dry_run \in BOOLEAN
    /\ delete_regions \in BOOLEAN
    /\ threshold = 100
    /\ \E cells \in RichGrids :
           dir = Put(Put(<<>>, PathD, OtherFile),
                     PathA, File(Ino(0, PathA), TRUE, TRUE, cells))
    /\ NotStarted
    /\ MergeIdle

SpecRegion == InitRegion /\ [][Next]_vars

\* the kinds of region file of Init
FileKinds ==
    [mixed |-> [readable |-> TRUE, valid |-> TRUE,
                cells |-> Put(Put(<<>>, <<0, 0>>, "above"), <<0, 1>>, "equal")],
     dead |-> [readable |-> TRUE, valid |-> TRUE,
               cells |-> Put(<<>>, <<1, 0>>, "absent")],
     corrupt |-> [readable |-> TRUE, valid |-> TRUE,
                  cells |-> Put(Put(<<>>, <<0, 0>>, "above"), <<1, 1>>, "cut_short")],
     hostile |-> [readable |-> TRUE, valid |-> TRUE,
                  cells |-> Put(<<>>, <<0, 1>>, "overflowing")],
     torn |-> [readable |-> TRUE, valid |-> FALSE, cells |-> <<>>],
     locked |-> [readable |-> FALSE, valid |-> TRUE,
                 cells |-> Put(<<>>, <<0, 0>>, "above")]]

RegionPaths == {PathA, PathB, temp_path(PathA)}

\* at most MaxFiles region files, each of any kind, and a file that is none
Init ==
    /\ ScanIdle
    /\ dry_run \in BOOLEAN
    /\ delete_regions \in BOOLEAN
    /\ threshold = 100
    /\ \E paths \in {P \in SUBSET RegionPaths : Cardinality(P) <= MaxFiles} :
         \E kinds \in [paths -> DOMAIN FileKinds] :
            dir = [p \in paths \cup {PathD} |->
                     IF p = PathD THEN OtherFile
                     ELSE File(Ino(0, p), FileKinds[kinds[p]].readable,
                               FileKinds[kinds[p]].valid, FileKinds[kinds[p]].cells)]
    /\ NotStarted
    /\ MergeIdle

Spec == Init /\ [][Next]_vars

----------------------------------------------------------------------------
(* Properties of process_region.                                           *)

\* the chunks of a file that read_chunk returns
Present(file) == {c \in DOMAIN file.cells : file.cells[c] # "unreadable"}

\* the chunks of a file whose InhabitedTime is above the threshold
Above(file) ==
    {c \in Present(file) :
        /\ BlobValue[file.cells[c]] # <<>>
        /\ BlobValue[file.cells[c]][1] > threshold}

\* process_region(r) has passed its first pass in the current call
Classified(r) ==
    /\ phase \in {"running", "done"}
    /\ r \in DOMAIN work
    /\ work[r].pc \in {"remove", "open_temp", "new_region", "write", "ok"}
    /\ work[r].stats.total_regions = 1

\* process_region(r) has returned Ok in the current call
Returned(r) == Classified(r) /\ work[r].pc = "ok"

\* C5: once the first pass of a region is over, the kept chunks (those
\* counted in inhabited_chunks and retained with their bytes for rewriting)
\* are exactly the chunks whose InhabitedTime is strictly above the
\* threshold; a chunk whose value equals the threshold, is below it or
\* negative, or that has no such field, is a dropped one.
C5_KeepIffAbove ==
    Classified(PathA) =>
        LET file == orig[PathA]
            pass == work[PathA]
        IN  /\ DOMAIN pass.chunks = Above(file)
            /\ \A c \in Above(file) : pass.chunks[c] = file.cells[c]
            /\ pass.stats.chunk_stats.inhabited_chunks = Cardinality(Above(file))
            /\ pass.stats.chunk_stats.total_chunks = Cardinality(Present(file))
            /\ pass.deleted_count = Cardinality(Present(file) \ Above(file))

C5_Witness ==
    /\ Classified(PathA)
    /\ orig[PathA].cells = Put(Put(<<>>, <<0, 1>>, "equal"), <<1, 0>>, "above")
    /\ DOMAIN work[PathA].chunks = {<<1, 0>>}
    /\ work[PathA].deleted_count = 1

\* process_region(r) has replaced the region file by the compacted one
Compacted(r) ==
    /\ Returned(r)
    /\ ~delete_regions
    /\ ~dry_run
    /\ work[r].deleted_count > 0

\* C6: after process_region has replaced a region file in chunk deletion
\* mode, the file at the region path is a region that holds every kept
\* chunk at its coordinates with its bytes, and no chunk anywhere else,
\* also when write_chunk has failed.
C6_CompactedHoldsKept ==
    Compacted(PathA) =>
        /\ PathA \in DOMAIN dir
        /\ dir[PathA].valid
        /\ dir[PathA].cells = work[PathA].chunks

\* C7: in chunk deletion mode every region file that the call enumerated is,
\* at every step, still the file it was when the call began, or the
\* file that its own process_region built and renamed over it.
C7_OriginalOrCompacted ==
    (phase \in {"running", "done"} /\ ~delete_regions) =>
        \A r \in DOMAIN work :
            /\ r \in DOMAIN dir
            /\ \/ dir[r] = orig[r]
               \/ /\ work[r].pc = "ok"
                  /\ dir[r].ino = work[r].tmp
                  /\ dir[r].valid

\* C8: in region deletion mode the region file is gone only if the region
\* has a chunk, keeps none, and dry_run is off; when process_region has
\* returned Ok it is gone if all three hold, it is otherwise the file it
\* was, and deleted_regions is 1 if the region has a chunk and keeps none
\* (in a dry run too) and 0 otherwise.
C8_RegionDeletion ==
    (phase \in {"running", "done"} /\ delete_regions /\ PathA \in DOMAIN work) =>
        LET file == orig[PathA]
            dead == Present(file) # {} /\ Above(file) = {}
        IN  /\ PathA \notin DOMAIN dir => (dead /\ ~dry_run)
            /\ PathA \in DOMAIN dir => dir[PathA] = file
            /\ Returned(PathA) =>
                  /\ (dead /\ ~dry_run) => PathA \notin DOMAIN dir
                  /\ work[PathA].stats.deleted_regions = IF dead THEN 1 ELSE 0

C8_Witness ==
    /\ Returned(PathA)
    /\ delete_regions
    /\ ~dry_run
    /\ orig[PathA].cells = Put(Put(<<>>, <<0, 0>>, "equal"), <<1, 1>>, "absent")
    /\ PathA \notin DOMAIN dir
    /\ work[PathA].stats.deleted_regions = 1

----------------------------------------------------------------------------
(* Properties of process_directory.                                        *)

\* C9: with dry_run set, in either mode, no step of any call changes the
\* directory, and two consecutive calls that listed the directory report
\* the same statistics.
C9_DryRunFrame ==
    /\ [][dry_run => dir' = dir]_vars
    /\ [](dry_run /\ Len(history) = 2 /\ history[1].ret = "Ok" /\ history[2].ret = "Ok"
            => history[1] = history[2])

C9_Witness ==
    /\ dry_run
    /\ Len(history) = 2
    /\ history[1].reported
    /\ history[2].reported
    /\ history[2].stats.chunk_stats.total_chunks
         > history[2].stats.chunk_stats.inhabited_chunks
    /\ history[2].stats.total_regions = 2

\* the regions whose process_region returned Ok
Succeeded == {r \in DOMAIN work : work[r].pc = "ok"}

RECURSIVE Sum(_, _)
\* the sum of f over the set S
Sum(f, S) ==
    IF S = {} THEN 0
    ELSE LET x == CHOOSE x \in S : TRUE IN f[x] + Sum(f, S \ {x})

\* the call has ended: every region has returned, the call returns Ok, and
\* each reported total is the sum over exactly the regions that returned Ok
SumOfSucceeded ==
    LET last == history[Len(history)]
    IN  /\ \A r \in DOMAIN work : work[r].pc \in {"ok", "err"}
        /\ last.ret = "Ok"
        /\ last.reported
        /\ last.stats.total_regions = Cardinality(Succeeded)
        /\ last.stats.deleted_regions =
              Sum([r \in Succeeded |-> work[r].stats.deleted_regions], Succeeded)
        /\ last.stats.chunk_stats.total_chunks =
              Sum([r \in Succeeded |-> work[r].stats.chunk_stats.total_chunks],
                  Succeeded)
        /\ last.stats.chunk_stats.inhabited_chunks =
              Sum([r \in Succeeded |-> work[r].stats.chunk_stats.inhabited_chunks],
                  Succeeded)

\* C10: whichever regions fail, no call of process_directory that listed
\* the directory is cut short, and when it ends every region has returned,
\* it returns Ok, and each reported total is the sum over exactly the
\* regions that returned Ok.
C10_FailuresIsolated ==
    /\ phase # "panicked"
    /\ (phase = "done" /\ work # <<>>) => SumOfSucceeded

\* the part of C10 about the calls that end: a region that returned an
\* error adds to no counter
C10_ReturnedFailuresIsolated == (phase = "done" /\ work # <<>>) => SumOfSucceeded

C10_ReturnedWitness ==
    /\ phase = "done"
    /\ Cardinality(DOMAIN work) = 2
    /\ Cardinality(Succeeded) = 1
    /\ history[Len(history)].stats.total_regions = 1
    /\ history[Len(history)].stats.chunk_stats.total_chunks = 2

----------------------------------------------------------------------------
(* Properties of a region with a chunk whose scan fails.                   *)

\* the chunks of a file whose scan returns an error
Unscannable(file) ==
    {c \in Present(file) : file.cells[c] \in {"garbled", "cut_short"}}

\* process_region(r) has left the queue in the current call
Taken(r) ==
    /\ phase \in {"running", "done", "panicked"}
    /\ r \in DOMAIN work
    /\ work[r].pc # "queued"

\* C11: when the scan of a chunk of a region returns an error (format or
\* I/O), process_region returns an error for the region unless another
\* scan panics first: no chunk is counted, the region file and the
\* directory entry at its temporary path are as they were (no temporary
\* file, no rename, no removal), and the reported totals do not count the
\* region.
C11_ScanErrorFailsRegion ==
    (Taken(PathA) /\ Unscannable(orig[PathA]) # {} /\ work[PathA].pc # "panic") =>
        /\ work[PathA] = Failed("ChunkError")
        /\ dir = orig
        /\ temp_path(PathA) \notin DOMAIN dir
        /\ phase = "done" =>
              /\ history[Len(history)].ret = "Ok"
              /\ history[Len(history)].stats = RegionStatsDefault

C11_Witness ==
    /\ Taken(PathA)
    /\ phase = "done"
    /\ ~dry_run
    /\ ~delete_regions
    /\ orig[PathA].cells = Put(Put(<<>>, <<0, 0>>, "equal"), <<1, 1>>, "cut_short")
    /\ work[PathA] = Failed("ChunkError")
    /\ dir = orig
    /\ history[Len(history)].stats.total_regions = 0

----------------------------------------------------------------------------
(* Properties of the worker pool.                                          *)

\* the paths that process_region(r) has opened, written, renamed or removed
\* in the current call: its region path and, once temp_file is open, its
\* temporary path
Touched(r) ==
    IF work[r].pc = "queued" THEN {}
    ELSE {r} \cup (IF work[r].tmp # NoIno THEN {temp_path(r)} ELSE {})

\* C12: in every interleaving no path is touched by two calls of
\* process_region, and the temporary path of one is never a region that
\* the pool is processing.
C12_WorkersDisjoint ==
    phase \in {"running", "done"} =>
        \A r \in DOMAIN work : \A q \in DOMAIN work \ {r} :
            /\ Touched(r) \cap Touched(q) = {}
            /\ work[r].tmp # NoIno => temp_path(r) # q

----------------------------------------------------------------------------
(* lib.rs: RegionStats::merge on its own.  A Vec of statistics is merged   *)
(* into total_stats as process_directory does, in any order.               *)

\* the most statistics of a Vec of InitMerge
MaxParts == 3

\* statistics of the shapes that process_region returns and merge builds
StatSamples ==
    {RegionStats(rs[1], rs[2], ChunkStats(cs[1], cs[2])) :
        rs \in {<<0, 0>>, <<1, 0>>, <<1, 1>>},
        cs \in {<<0, 0>>, <<1, 1>>, <<1024, 0>>}}

\* total_stats as the loop of process_directory may find it before the
\* results at hand: nothing merged yet, or 4194303 regions of 1024 chunks
\* each, one of them inhabited (total_chunks = 2^32 - 1024)
TotalsBefore ==
    {RegionStatsDefault, RegionStats(4194303, 0, ChunkStats(-1024, 1))}

InitMerge ==
    /\ ScanIdle
    /\ PipelineIdle
    /\ merge_before \in TotalsBefore
    /\ merge_parts \in UNION {[1..n -> StatSamples] : n \in 0..MaxParts}
    /\ merge_total = merge_before
    /\ merge_done = {}

\* Ok(stats) => total_stats.merge(stats), for the result at index i; an
\* overflowing `+=` panics in a build with overflow checks and wraps in one
\* without
Merge(i) ==
    /\ phase = "idle"
    /\ i \notin merge_done
    /\ IF overflow_checks /\ region_stats_merge_overflows(merge_total, merge_parts[i])
       THEN /\ phase' = "panicked"
            /\ UNCHANGED <<merge_total, merge_done>>
       ELSE /\ merge_total' = region_stats_merge(merge_total, merge_parts[i])
            /\ merge_done' = merge_done \cup {i}
            /\ UNCHANGED phase
    /\ UNCHANGED <<merge_before, merge_parts>>
    /\ UNCHANGED <<dry_run, delete_regions, threshold, dir, runs, work, history, orig>>
    /\ UNCHANGED scanVars

NextMerge == \E i \in DOMAIN merge_parts : Merge(i)

SpecMerge == InitMerge /\ [][NextMerge]_vars

\* the statistics whose every counter is the sum of that counter over the
\* statistics at the indices S
SumStats(S) ==
    RegionStats(Sum([i \in S |-> merge_parts[i].total_regions], S),
                Sum([i \in S |-> merge_parts[i].deleted_regions], S),
                ChunkStats(Sum([i \in S |-> merge_parts[i].chunk_stats.total_chunks], S),
                           Sum([i \in S |-> merge_parts[i].chunk_stats.inhabited_chunks],
                               S)))

\* C13: RegionStats::merge is commutative and associative with the
\* all-zero statistics as identity, and in whatever order statistics are
\* merged, the total holds for every counter the sum over those merged.
C13_MergeOrderIndependent ==
    /\ \A i \in DOMAIN merge_parts :
          /\ region_stats_merge(RegionStatsDefault, merge_parts[i]) = merge_parts[i]
          /\ region_stats_merge(merge_parts[i], RegionStatsDefault) = merge_parts[i]
    /\ \A i, j \in DOMAIN merge_parts :
          region_stats_merge(merge_parts[i], merge_parts[j])
            = region_stats_merge(merge_parts[j], merge_parts[i])
    /\ \A i, j, k \in DOMAIN merge_parts :
          region_stats_merge(region_stats_merge(merge_parts[i], merge_parts[j]),
                             merge_parts[k])
            = region_stats_merge(merge_parts[i],
                                 region_stats_merge(merge_parts[j], merge_parts[k]))
    /\ (merge_parts # <<>> /\ phase # "panicked") =>
          merge_total = region_stats_merge(merge_before, SumStats(merge_done))

C13_Witness ==
    /\ merge_before = RegionStatsDefault
    /\ Len(merge_parts) = 3
    /\ merge_done = {1, 2, 3}
    /\ merge_parts[1] = RegionStats(1, 1, ChunkStats(1024, 0))
    /\ merge_parts[2] = RegionStats(1, 0, ChunkStats(1, 1))
    /\ merge_parts[3] = RegionStats(1, 1, ChunkStats(1024, 0))
    /\ merge_total = RegionStats(3, 2, ChunkStats(2049, 1))

----------------------------------------------------------------------------
(* Further properties of process_region.                                   *)

\* C14: for a region file that opens as a region and from which read_chunk
\* returns no chunk, process_region changes nothing in the directory in
\* either mode and with dry_run on or off (no removal, no temporary file,
\* no rename), and returns total_regions = 1, deleted_regions = 0 and zero
\* chunk counters.
C14_EmptyRegionUntouched ==
    (Taken(PathA) /\ orig[PathA].readable /\ orig[PathA].valid
       /\ Present(orig[PathA]) = {}) =>
        /\ work[PathA].pc = "ok"
        /\ work[PathA].stats = RegionStats(1, 0, ChunkStats(0, 0))
        /\ work[PathA].tmp = NoIno
        /\ dir = orig

C14_Witness ==
    /\ Taken(PathA)
    /\ ~dry_run
    /\ delete_regions
    /\ orig[PathA].cells = <<>>
    /\ work[PathA].pc = "ok"
    /\ dir = orig


\* C17: once process_region has returned in compaction mode, with Ok or with
\* an error, the directory holds no file at the region's temporary path
\* (none was there before the call).
C17_NoTempLeft ==
    (/\ Taken(PathA)
     /\ ~delete_regions
     /\ temp_path(PathA) \notin DOMAIN orig
     /\ work[PathA].pc \in {"ok", "err"}) =>
        temp_path(PathA) \notin DOMAIN dir

\* the rename has failed after every kept chunk was written
C17_Witness ==
    /\ Taken(PathA)
    /\ ~delete_regions
    /\ ~dry_run
    /\ temp_path(PathA) \notin DOMAIN orig
    /\ work[PathA] = Failed("IoError")
    /\ temp_path(PathA) \in DOMAIN dir
    /\ dir[temp_path(PathA)].valid
    /\ dir[temp_path(PathA)].cells # <<>>

\* C18: the two policies exclude each other.  In region deletion mode a
\* region file with at least one kept chunk stays the file it was, dropped
\* chunks or not, and no temporary file is made for it; in chunk deletion
\* mode no region file that the call listed ever leaves the directory, not
\* even one whose chunks are all dropped.
C18_PoliciesExclusive ==
    phase \in {"running", "done"} =>
        \A r \in DOMAIN work :
            /\ (delete_regions /\ Above(orig[r]) # {}) =>
                   /\ r \in DOMAIN dir
                   /\ dir[r] = orig[r]
                   /\ work[r].tmp = NoIno
                   /\ temp_path(r) \in DOMAIN dir =>
                          /\ temp_path(r) \in DOMAIN orig
                          /\ dir[temp_path(r)] = orig[temp_path(r)]
            /\ ~delete_regions => r \in DOMAIN dir

\* C18 for the regions whose path is no other region's temporary path
C18_PoliciesExclusiveApart ==
    phase \in {"running", "done"} =>
        \A r \in DOMAIN work :
            /\ (delete_regions /\ Above(orig[r]) # {}) =>
                   /\ r \in DOMAIN dir
                   /\ dir[r] = orig[r]
                   /\ work[r].tmp = NoIno
                   /\ temp_path(r) \in DOMAIN dir =>
                          /\ temp_path(r) \in DOMAIN orig
                          /\ dir[temp_path(r)] = orig[temp_path(r)]
            /\ (~delete_regions /\ \A q \in DOMAIN work : temp_path(q) # r) =>
                   r \in DOMAIN dir

\* both halves: a region with a kept and a dropped chunk has come through
\* region deletion mode, or a region of dropped chunks only has come through
\* chunk deletion mode and been replaced
C18_Witness ==
    /\ Returned(PathA)
    /\ ~dry_run
    /\ orig[PathA].readable
    /\ orig[PathA].valid
    /\ \/ /\ delete_regions
          /\ Above(orig[PathA]) # {}
          /\ Present(orig[PathA]) \ Above(orig[PathA]) # {}
          /\ dir[PathA] = orig[PathA]
       \/ /\ ~delete_regions
          /\ Above(orig[PathA]) = {}
          /\ Present(orig[PathA]) # {}
          /\ PathA \in DOMAIN dir
          /\ dir[PathA].ino = work[PathA].tmp

\* C20: after process_region has replaced a region file in chunk deletion
\* mode, every cell that held data in the original file and holds none in
\* the new one is a chunk that was read and scanned to no value or to a
\* value not above the threshold; a chunk whose read failed is still there.
C20_OnlyDroppedRemoved ==
    (Compacted(PathA) /\ PathA \in DOMAIN dir) =>
        \A c \in DOMAIN orig[PathA].cells \ DOMAIN dir[PathA].cells :
            /\ c \in Present(orig[PathA])
            /\ c \notin Above(orig[PathA])

\* a region with a dropped chunk and a chunk whose read fails has been
\* replaced by a file that holds neither
C20_Witness ==
    /\ Compacted(PathA)
    /\ PathA \in DOMAIN dir
    /\ dir[PathA].ino = work[PathA].tmp
    /\ orig[PathA].cells = (<<0, 0>> :> "absent" @@ <<1, 1>> :> "unreadable")
    /\ dir[PathA].cells = <<>>

----------------------------------------------------------------------------
(* Invariants of the statistics.                                           *)

\* no more inhabited chunks than chunks, no more deleted regions than regions
StatsSound(stats) ==
    /\ stats.chunk_stats.inhabited_chunks <= stats.chunk_stats.total_chunks
    /\ stats.deleted_regions <= stats.total_regions

\* every process_region of the call has returned
AllReturned ==
    /\ phase \in {"running", "done"}
    /\ work # <<>>
    /\ \A r \in DOMAIN work : work[r].pc \in {"ok", "err"}

\* C21 within the directories of Spec: the statistics that process_region
\* returns, and the total of process_directory after each result of its
\* loop, in whatever order the regions were listed, have inhabited_chunks <=
\* total_chunks and deleted_regions <= total_regions; a region's
\* total_chunks is its kept chunks plus its dropped chunks and at most 1024;
\* and total_regions is the number of regions merged so far.
C21_ReturnedStatsInvariants ==
    /\ \A r \in DOMAIN work :
          (phase \in {"running", "done"} /\ work[r].pc = "ok") =>
              /\ StatsSound(work[r].stats)
              /\ work[r].stats.total_regions = 1
              /\ work[r].stats.chunk_stats.total_chunks
                   = Cardinality(DOMAIN work[r].chunks) + work[r].deleted_count
              /\ work[r].stats.chunk_stats.inhabited_chunks
                   = Cardinality(DOMAIN work[r].chunks)
              /\ work[r].stats.chunk_stats.total_chunks <= REGION_SIDE * REGION_SIDE
    /\ AllReturned =>
          \A found \in Orders(DOMAIN work) : \A k \in 0..Len(found) :
              LET total_stats == aggregate(RegionStatsDefault, SubSeq(found, 1, k), 1)
              IN  /\ StatsSound(total_stats)
                  /\ total_stats.total_regions
                       = Cardinality({i \in 1..k : work[found[i]].pc = "ok"})
    /\ (AllReturned /\ phase = "done") =>
          /\ StatsSound(history[Len(history)].stats)
          /\ history[Len(history)].stats.total_regions = Cardinality(Succeeded)

\* a call over two regions has returned in region deletion mode: one region
\* was deleted, the other kept a chunk and dropped another
C21_ReturnedWitness ==
    /\ AllReturned
    /\ phase = "done"
    /\ delete_regions
    /\ Cardinality(DOMAIN work) = 2
    /\ Cardinality(Succeeded) = 2
    /\ history[Len(history)].stats.total_regions = 2
    /\ history[Len(history)].stats.deleted_regions = 1
    /\ history[Len(history)].stats.chunk_stats.inhabited_chunks >= 1
    /\ history[Len(history)].stats.chunk_stats.total_chunks
         > history[Len(history)].stats.chunk_stats.inhabited_chunks + 1

\* a statistics value that process_region returns
RegionResult(stats) ==
    /\ stats.total_regions = 1
    /\ stats.deleted_regions \in {0, 1}
    /\ stats.chunk_stats.inhabited_chunks >= 0
    /\ stats.chunk_stats.inhabited_chunks <= stats.chunk_stats.total_chunks
    /\ stats.chunk_stats.total_chunks <= REGION_SIDE * REGION_SIDE
    /\ stats.deleted_regions = 1 => stats.chunk_stats.inhabited_chunks = 0

\* C21: after any sequence of merges of statistics that process_region
\* returned, the running total of process_directory has inhabited_chunks <=
\* total_chunks and deleted_regions <= total_regions, and its total_regions
\* is the number of regions merged so far.
C21_RunningTotalSound ==
    (\A i \in DOMAIN merge_parts : RegionResult(merge_parts[i])) =>
        /\ u32_le(merge_total.chunk_stats.inhabited_chunks,
                  merge_total.chunk_stats.total_chunks)
        /\ u32_le(merge_total.deleted_regions, merge_total.total_regions)
        /\ merge_total.total_regions
             = merge_before.total_regions + Cardinality(merge_done)

\* the 4194304th region of 1024 chunks has been merged in a build without
\* overflow checks: total_chunks is back at 0 with one chunk inhabited
C21_Witness ==
    /\ ~overflow_checks
    /\ merge_before.total_regions = 4194303
    /\ merge_parts = <<RegionStats(1, 0, ChunkStats(1024, 0))>>
    /\ merge_done = {1}
    /\ merge_total = RegionStats(4194304, 0, ChunkStats(0, 1))
====
